---- MODULE Spec2Model ----
(***************************************************************************)
(* Skindentity (src/main.py): the request handler api_template, its three  *)
(* routes, the cache-file naming and the disk cache under /tmp.            *)
(*                                                                         *)
(* Strings are sequences of one-character strings, so that slicing and     *)
(* splitting are computed as Python computes them.  A worker process runs  *)
(* one request at a time (api_template never awaits); several workers      *)
(* share only the file system, and interleave at its system calls.         *)
(***************************************************************************)
EXTENDS Integers, Sequences, FiniteSets, TLC

\* ---------------------------------------------------------------- bounds
\* Requests accepted in one run.
MaxRequests == 2
\* Worker processes of the multi-worker deployment.
NWorkers == 2
\* Identifiers of the file-naming runs: up to MaxHead arbitrary characters,
\* then no filler or MaxFill - 2 .. MaxFill filler characters, then up to
\* MaxTail arbitrary ones: short identifiers, and identifiers around the 16
\* characters of the slice.
MaxHead == 1
MaxFill == 14
MaxTail == 2
\* The pixel runs render images of 1 .. MaxSide pixels a side.
MaxSide == 2

\* ------------------------------------------------------ program constants
\* filename = ...[-16:-1]: the slice starts 16 from the end and stops 1 from it.
SliceFrom == 16
SliceDrop == 1
\* A skin is 64x64; a legacy skin is 64x32.
SkinSide == 64
LegacyHeight == 32
\* Query(..., ge=1, le=8) and Query(..., ge=2, le=8).
MarginMax == 8
UpscaleMax == 8
\* HTTPException(status_code=404, ...)
NotFound == 404

\* --------------------------------------------------------- Python strings
Max(a, b) == IF a >= b THEN a ELSE b

\* s[lo:hi] for lo, hi < 0: both are counted from the end and clamped at 0.
PySliceNeg(s, lo, hi) ==
    LET n == Len(s)
        start == Max(n - lo, 0)
        stop == Max(n - hi, 0)
    IN SubSeq(s, start + 1, stop)

\* The index of the last c in s, 0 when there is none.
LastIndexOf(s, c) ==
    LET I == {i \in 1..Len(s) : s[i] = c}
    IN IF I = {} THEN 0 ELSE CHOOSE i \in I : \A j \in I : j <= i

\* s.split(c)[-1]
SplitLast(s, c) == SubSeq(s, LastIndexOf(s, c) + 1, Len(s))

\* s.rsplit(c, 1)[0]
RSplitHead(s, c) ==
    LET i == LastIndexOf(s, c)
    IN IF i = 0 THEN s ELSE SubSeq(s, 1, i - 1)

Digits == <<"0", "1", "2", "3", "4", "5", "6", "7", "8", "9">>

\* str(n) for n >= 0
RECURSIVE Str(_)
Str(n) == IF n < 10 THEN <<Digits[n + 1]>>
          ELSE Str(n \div 10) \o <<Digits[(n % 10) + 1]>>

HasChar(s, c) == \E i \in 1..Len(s) : s[i] = c

\* An optional string argument: None, or a string (possibly empty).
None == [some |-> FALSE, val |-> <<>>]

Some(s) == [some |-> TRUE, val |-> s]

\* An optional bool argument.
NoBool == [some |-> FALSE, val |-> FALSE]

Bool(b) == [some |-> TRUE, val |-> b]

\* Mutant of Truthy: `is not None` in place of truthiness.
TruthyNotNone(o) == o.some

\* Python truthiness of an optional string: None and "" are false.
Truthy(o) == o.some /\ o.val # <<>>

\* ------------------------------------------------------ cache file naming
\* Mutant of TailSlice: x[-15:], the last 15 characters.
TailSliceLast15(s) == SubSeq(s, Max(Len(s) - 15, 0) + 1, Len(s))

\* x[-16:-1]
TailSlice(s) == PySliceNeg(s, SliceFrom, SliceDrop)

\* Lines 103, 107: url.split('/')[-1][-16:-1]
UrlIdentifier(url) == TailSlice(SplitLast(url, "/"))

\* Line 109: skin_base64[-16:-1]
Base64Identifier(text) == TailSlice(text)

\* Line 114: filename.rsplit('.', 1)[0]
StripExtension(filename) == RSplitHead(filename, ".")

\* Lines 116-117
OverlayToken(overlay) == IF overlay THEN <<"o">> ELSE <<>>

\* Lines 118-119
MarginToken(margin) == IF margin > 0 THEN <<"m">> \o Str(margin) ELSE <<>>

\* Mutant of UpscaleToken: the margin's letter.
UpscaleTokenM(upscale) == IF upscale > 1 THEN <<"m">> \o Str(upscale) ELSE <<>>

\* Lines 120-121
UpscaleToken(upscale) == IF upscale > 1 THEN <<"u">> \o Str(upscale) ELSE <<>>

\* Mutant of WithModifiers: the margin token before the overlay token.
WithModifiersMarginFirst(tail, overlay, margin, upscale) ==
    tail \o MarginToken(margin) \o OverlayToken(overlay)
         \o UpscaleToken(upscale) \o <<".", "p", "n", "g">>

\* Lines 116-123: the modifiers appended to the stripped name, then '.png'.
WithModifiers(tail, overlay, margin, upscale) ==
    tail \o OverlayToken(overlay) \o MarginToken(margin)
         \o UpscaleToken(upscale) \o <<".", "p", "n", "g">>

\* Lines 113-123 applied to the sliced identifier.
CacheFileName(identifier, overlay, margin, upscale) ==
    WithModifiers(StripExtension(identifier), overlay, margin, upscale)

\* ------------------------------------------------------------ cache paths
Routes == {"skins/", "portraits/", "profiles/"}

RECURSIVE StripLeadingSlashes(_)
StripLeadingSlashes(s) ==
    IF s # <<>> /\ s[1] = "/" THEN StripLeadingSlashes(Tail(s)) ELSE s

\* Lines 127-128: Path('/tmp') / path / filename.  pathlib restarts at the root
\* when the joined name is absolute; root is the directory the relative part
\* is resolved in ("/" or the route's directory under /tmp).
PotFile(path, filename) ==
    IF filename # <<>> /\ filename[1] = "/"
    THEN [root |-> "/", rel |-> StripLeadingSlashes(filename)]
    ELSE [root |-> path, rel |-> filename]

\* Whether the directory that is to hold the file exists: /tmp and / do, a
\* route's directory once made, and no directory below those.
ParentExists(f, ds) == ~HasChar(f.rel, "/") /\ (f.root = "/" \/ f.root \in ds)

\* Whether the file is the direct child of the route's cache directory.
DirectChild(f, path) == f.root = path /\ ~HasChar(f.rel, "/")

\* ----------------------------------------------------------------- images
NoImage == [w |-> 0, h |-> 0, px |-> "", upgraded |-> FALSE, fn |-> "",
            slim |-> FALSE, overlay |-> FALSE, margin |-> 0, upscale |-> 1]

\* A decoded image of w x h whose pixels are named px.
Picture(w, h, px) == [NoImage EXCEPT !.w = w, !.h = h, !.px = px, !.fn = "skin"]

\* Bytes that are no image.
Garbage == [NoImage EXCEPT !.px = "garbage"]

IsImage(b) == b.fn # ""

\* renders.old_to_new_skin: the legacy 64x32 layout moved into 64x64.
old_to_new_skin(image) ==
    [image EXCEPT !.h = SkinSide, !.upgraded = TRUE]

\* The size of a portrait and of a face render.
PortraitSize == <<16, 32>>

FaceSize == <<8, 8>>

\* renders.skin_to_portrait, renders.skin_to_face
skin_to_portrait(skin, slim, overlay) ==
    [skin EXCEPT !.fn = "portrait", !.slim = slim, !.overlay = overlay,
                 !.w = PortraitSize[1], !.h = PortraitSize[2]]

skin_to_face(skin, slim, overlay) ==
    [skin EXCEPT !.fn = "face", !.slim = slim, !.overlay = overlay,
                 !.w = FaceSize[1], !.h = FaceSize[2]]

\* Lines 196-206: the render function each route passes to api_template;
\* /skin/ passes lambda x, *_: x.
RenderFunction(path, skin, slim, overlay) ==
    CASE path = "skins/" -> skin
      [] path = "portraits/" -> skin_to_portrait(skin, slim, overlay)
      [] path = "profiles/" -> skin_to_face(skin, slim, overlay)

\* Lines 162-165
AddMargin(image, margin) ==
    IF margin > 0
    THEN [image EXCEPT !.w = image.w + margin + margin,
                       !.h = image.h + margin + margin, !.margin = margin]
    ELSE image

\* Lines 166-167
Upscale(image, upscale) ==
    IF upscale > 1
    THEN [image EXCEPT !.w = image.w * upscale, !.h = image.h * upscale,
                       !.upscale = upscale]
    ELSE image

\* Lines 161-167
Render(path, skin, slim, overlay, margin, upscale) ==
    Upscale(AddMargin(RenderFunction(path, skin, slim, overlay), margin), upscale)

\* ------------------------------------------------------------- the world
\* What the services outside the program answer.  Player "al" has a profile
\* whose texture URL is TextureUrl and whose model is slim; the name lookup
\* answers player "no" with an empty body, player "ga" with a body that is no
\* JSON, and player "bl" with the JSON value {}.
Alice == <<"a", "l">>

Nobody == <<"n", "o">>

Garbled == <<"g", "a">>

Blank == <<"b", "l">>

TextureUrl == <<"t", "/", "c", "a", "f", "e">>

UrlA == <<"h", "/", "a", "b", ".", "p", "n", "g">>

UrlB == <<"g", "/", "a", "b", ".", "p", "n", "g">>

UrlLegacy == <<"h", "/", "o", "l", ".", "p", "n", "g">>

UrlBig == <<"h", "/", "b", "g", ".", "p", "n", "g">>

UrlText == <<"h", "/", "t", "x">>

UrlBad == <<"b", "a", "d">>

UrlShort == <<"h", "/", "p">>

B64Skin == <<"Q", "m", "C", "C">>

B64Big == <<"Q", "m", "C", "D">>

B64Text == <<"a", "G", "k", "=">>

B64Slash == <<"a", "/", "b", "C">>

B64Short == <<"Y", "Q">>

B64Unpadded == <<"Y", "W", "I">>

B64Root == <<"/", "a", "b", "C">>

\* urlopen(url): ValueError for a malformed URL, URLError for one that cannot be
\* fetched, else the body.
UrlOpen(url) ==
    CASE url = UrlA -> [exc |-> "", body |-> Picture(SkinSide, SkinSide, "A")]
      [] url = UrlB -> [exc |-> "", body |-> Picture(SkinSide, SkinSide, "B")]
      [] url = TextureUrl -> [exc |-> "", body |-> Picture(SkinSide, SkinSide, "T")]
      [] url = UrlShort -> [exc |-> "", body |-> Picture(SkinSide, SkinSide, "C")]
      [] url = UrlLegacy -> [exc |-> "", body |-> Picture(SkinSide, LegacyHeight, "L")]
      [] url = UrlBig -> [exc |-> "", body |-> Picture(100, 100, "G")]
      [] url = UrlText -> [exc |-> "", body |-> Garbage]
      [] url = UrlBad -> [exc |-> "ValueError", body |-> Garbage]
      [] OTHER -> [exc |-> "URLError", body |-> Garbage]

\* The bytes a base64 text stands for.
Encoded(text) ==
    CASE text = B64Skin -> Picture(SkinSide, SkinSide, "S")
      [] text = B64Big -> Picture(100, 100, "H")
      [] text = B64Slash -> Picture(SkinSide, SkinSide, "P")
      [] text = B64Unpadded -> Picture(SkinSide, LegacyHeight, "U")
      [] text = B64Root -> Picture(SkinSide, SkinSide, "R")
      [] OTHER -> Garbage

\* Line 42: the body the name lookup answers with.
NameLookup(player_name) ==
    CASE player_name = Alice -> "{id}"
      [] player_name = Nobody -> ""
      [] player_name = Garbled -> "<html>"
      [] OTHER -> "{}"

\* json.loads: whether the body is JSON at all, and whether its value is truthy.
IsJson(body) == body \in {"{id}", "{}"}

JsonTruthy(body) == body = "{id}"

\* Mutant of skin_url_from_player: without `if not id_json`, id_json['id'] of
\* an empty object raises KeyError.
skin_url_from_playerUnchecked(player_name) ==
    LET body == NameLookup(player_name)
    IN IF ~IsJson(body)
       THEN [exc |-> "UnknownPlayerError", link |-> <<>>, slim |-> FALSE]
       ELSE IF ~JsonTruthy(body)
       THEN [exc |-> "KeyError", link |-> <<>>, slim |-> FALSE]
       ELSE [exc |-> "", link |-> TextureUrl, slim |-> TRUE]

\* Lines 41-56: the profile lookup.  exc is "" with the skin's link and model,
\* or names what is raised: UnknownPlayerError for a body that is no JSON
\* (JSONDecodeError, lines 43-44) and for a falsy JSON value (lines 45-46).
skin_url_from_player(player_name) ==
    LET body == NameLookup(player_name)
    IN IF ~IsJson(body)
       THEN [exc |-> "UnknownPlayerError", link |-> <<>>, slim |-> FALSE]
       ELSE IF ~JsonTruthy(body)
       THEN [exc |-> "UnknownPlayerError", link |-> <<>>, slim |-> FALSE]
       ELSE [exc |-> "", link |-> TextureUrl, slim |-> TRUE]

\* Lines 68-81.  exc is "" and image the skin, or exc names what is raised.
skin_from_url(skin_url) ==
    LET file == UrlOpen(skin_url)
        image == IF file.body.w = SkinSide /\ file.body.h = LegacyHeight
                 THEN old_to_new_skin(file.body) ELSE file.body
    IN CASE file.exc = "ValueError" -> [exc |-> "UrlError", image |-> NoImage]
         [] file.exc \notin {"", "ValueError"} -> [exc |-> file.exc, image |-> NoImage]
         [] file.exc = "" /\ ~IsImage(file.body) -> [exc |-> "UrlError", image |-> NoImage]
         [] OTHER -> IF image.w # SkinSide \/ image.h # SkinSide
                     THEN [exc |-> "ImageSizeError", image |-> NoImage]
                     ELSE [exc |-> "", image |-> image]

\* base64.b64decode(text) succeeds when the data characters fill whole groups
\* of four, or the last group is completed by '=' signs; surplus '=' are ignored.
DataChars(text) == Cardinality({i \in 1..Len(text) : text[i] # "="})

B64Decodes(text) ==
    LET n == DataChars(text)
        k == Len(text) - n
    IN \/ n % 4 = 0
       \/ n % 4 = 2 /\ k >= 2
       \/ n % 4 = 3 /\ k >= 1

\* Lines 152-157: decode with a '=' appended, on binascii.Error decode as given
\* (which raises again when that fails too); then Image.open.
skin_from_base64(skin_base64) ==
    CASE ~B64Decodes(skin_base64 \o <<"=">>) /\ ~B64Decodes(skin_base64) ->
             [exc |-> "binascii.Error", image |-> NoImage]
      [] ~IsImage(Encoded(skin_base64)) ->
             [exc |-> "UnidentifiedImageError", image |-> NoImage]
      [] OTHER -> [exc |-> "", image |-> Encoded(skin_base64)]

\* ------------------------------------------------------------- responses
NoResult == [kind |-> "", status_code |-> 0, detail |-> "", image |-> NoImage]

\* return HTTPException(status_code=404, detail=detail)
HttpError(detail) ==
    [NoResult EXCEPT !.kind = "HTTPException", !.status_code = NotFound,
                     !.detail = detail]

\* Lines 177-180: the image as a PNG response.
StreamingResponse(image) ==
    [NoResult EXCEPT !.kind = "StreamingResponse", !.image = image]

\* An exception that leaves api_template: the request fails unhandled.
Raised(exc) == [NoResult EXCEPT !.kind = "raised", !.detail = exc]

\* ---------------------------------------------------------------- requests
\* Line 185: slim: bool = Query(False): a query without slim gives False.
template_args_slim(given) == IF given.some THEN given ELSE Bool(FALSE)

\* Lines 182-190: the query parameters, slim as the caller gave it (NoBool
\* when the query has none).  These are the option choices of the runs: no
\* modifier and no slim, slim alone given, and every modifier at once.
Options ==
    {[slim |-> NoBool, overlay |-> FALSE, margin |-> 0, upscale |-> 1],
     [slim |-> Bool(TRUE), overlay |-> FALSE, margin |-> 0, upscale |-> 1],
     [slim |-> Bool(FALSE), overlay |-> TRUE, margin |-> MarginMax,
      upscale |-> UpscaleMax - 1]}

Source(player, url, b64) ==
    [player_name |-> player, skin_url |-> url, skin_base64 |-> b64]

Sources ==
    {Source(None, None, None), Source(Some(<<>>), Some(<<>>), Some(<<>>))}
    \cup {Source(Some(n), None, None) : n \in {Alice, Nobody, Garbled, Blank}}
    \cup {Source(None, Some(u), None) :
             u \in {UrlA, UrlB, UrlLegacy, UrlBig, UrlText, UrlBad, UrlShort}}
    \cup {Source(None, None, Some(t)) :
             t \in {B64Skin, B64Big, B64Text, B64Slash, B64Short, B64Unpadded,
                    B64Root}}

\* The arguments a route hands to api_template (lines 190, 198-206); given is
\* the caller's slim before template_args put the default in.
Args(path, src, opt) ==
    [path |-> path, player |-> src.player_name, skin_url |-> src.skin_url,
     skin_base64 |-> src.skin_base64, given |-> opt.slim,
     slim |-> template_args_slim(opt.slim), overlay |-> opt.overlay,
     margin |-> opt.margin, upscale |-> opt.upscale]

Inputs == {Args(path, src, opt) : path \in Routes, src \in Sources, opt \in Options}

NoArgs == Args("", Source(None, None, None),
               [slim |-> NoBool, overlay |-> FALSE, margin |-> 0, upscale |-> 1])

\* What a request has done so far: whether it was served from the cache, how
\* often it fetched a skin and called the render function, and how the first
\* image.save, the mkdir and the second image.save ended ("" when not run,
\* "ok", or the exception).
NoLog == [hit |-> FALSE, fetches |-> 0, composites |-> 0,
          first |-> "", mkdir |-> "", retry |-> ""]

Workers == 1..NWorkers

\* ------------------------------------------------------------------- state
VARIABLES
    dirs,       \* the route directories that exist under /tmp
    files,      \* the cached files: path -> image
    pc,         \* per worker: the line its request is at, "idle" or "done"
    args,       \* per worker: the arguments of api_template
    url,        \* per worker: the player's skin URL (line 102)
    pot_slim,   \* per worker: the player's slim model (line 102)
    filename,   \* per worker: the cache file name
    skin,       \* per worker: the skin handed to the render function
    image,      \* per worker: the image read or rendered
    result,     \* per worker: what api_template returned or raised
    log,        \* per worker: what the request has done
    accepted    \* requests accepted so far

vars == <<dirs, files, pc, args, url, pot_slim, filename, skin, image, result, log,
          accepted>>

NoFiles == [f \in {} |-> NoImage]

Idle ==
    /\ pc = [p \in Workers |-> "idle"]
    /\ args = [p \in Workers |-> NoArgs]
    /\ url = [p \in Workers |-> <<>>]
    /\ pot_slim = [p \in Workers |-> FALSE]
    /\ filename = [p \in Workers |-> <<>>]
    /\ skin = [p \in Workers |-> NoImage]
    /\ image = [p \in Workers |-> NoImage]
    /\ result = [p \in Workers |-> NoResult]
    /\ log = [p \in Workers |-> NoLog]

Init ==
    /\ dirs = {}
    /\ files = NoFiles
    /\ accepted = 0
    /\ Idle

\* The cache file of worker p's request.
pot_file(p) == PotFile(args[p].path, filename[p])

\* A route handler is entered with the parsed query (lines 182-206).
Accept(p, a) ==
    /\ pc[p] = "idle"
    /\ accepted < MaxRequests
    /\ accepted' = accepted + 1
    /\ pc' = [pc EXCEPT ![p] = "L100"]
    /\ args' = [args EXCEPT ![p] = a]
    /\ UNCHANGED <<dirs, files, url, pot_slim, filename, skin, image, result, log>>

\* Lines 100-123: the source is resolved and the cache file is named.
Return(p, r) ==
    /\ result' = [result EXCEPT ![p] = r]
    /\ pc' = [pc EXCEPT ![p] = "done"]

ResolveSource(p) ==
    /\ pc[p] = "L100"
    /\ LET a == args[p]
           named(identifier) ==
               /\ filename' = [filename EXCEPT ![p] =
                      CacheFileName(identifier, a.overlay, a.margin, a.upscale)]
               /\ pc' = [pc EXCEPT ![p] = "L129"]
               /\ UNCHANGED result
       IN IF Truthy(a.player)
          THEN LET r == skin_url_from_player(a.player.val)
               IN IF r.exc = ""
                  THEN /\ url' = [url EXCEPT ![p] = r.link]
                       /\ pot_slim' = [pot_slim EXCEPT ![p] = r.slim]
                       /\ named(UrlIdentifier(r.link))
                  ELSE /\ Return(p, IF r.exc = "UnknownPlayerError"
                                     THEN HttpError("Unknown player")
                                     ELSE Raised(r.exc))
                       /\ UNCHANGED <<url, pot_slim, filename>>
          ELSE /\ UNCHANGED <<url, pot_slim>>
               /\ IF Truthy(a.skin_url) THEN named(UrlIdentifier(a.skin_url.val))
                  ELSE IF Truthy(a.skin_base64)
                       THEN named(Base64Identifier(a.skin_base64.val))
                       ELSE /\ Return(p, HttpError(
                                   "You must specify a Player Name, Skin URL or Skin File."))
                            /\ UNCHANGED filename
    /\ UNCHANGED <<dirs, files, args, skin, image, log, accepted>>

\* Mutant of CheckCache: the file is never looked up.
CheckCacheNoLookup(p) ==
    /\ pc[p] = "L129"
    /\ pc' = [pc EXCEPT ![p] = "L132"]
    /\ UNCHANGED <<dirs, files, args, url, pot_slim, filename, skin, image, result,
                   log, accepted>>

\* Lines 129-130 and 177-180: a cached file is opened and sent.
CheckCache(p) ==
    /\ pc[p] = "L129"
    /\ IF pot_file(p) \in DOMAIN files
       THEN /\ image' = [image EXCEPT ![p] = files[pot_file(p)]]
            /\ log' = [log EXCEPT ![p].hit = TRUE]
            /\ Return(p, StreamingResponse(files[pot_file(p)]))
       ELSE /\ pc' = [pc EXCEPT ![p] = "L132"]
            /\ UNCHANGED <<image, log, result>>
    /\ UNCHANGED <<dirs, files, args, url, pot_slim, filename, skin, accepted>>

\* Lines 132-159: the skin of the request's source.
GetSkin(a, u) ==
    IF Truthy(a.player) THEN skin_from_url(u)
    ELSE IF Truthy(a.skin_url) THEN skin_from_url(a.skin_url.val)
    ELSE skin_from_base64(a.skin_base64.val)

\* Lines 133-159: the handlers around the fetch; Image.open of the inline
\* payload is guarded by `except UrlError` only.
Handled(a, exc) ==
    IF Truthy(a.player) \/ Truthy(a.skin_url)
    THEN exc \in {"UrlError", "ImageSizeError"}
    ELSE exc = "UrlError"

ErrorDetail(exc) ==
    IF exc = "ImageSizeError" THEN "Image must be 64x64 pixels large"
    ELSE "Invalid URL"

\* Lines 140-141: if slim == None: slim = pot_slim
EffectiveSlim(slim, hint) == IF ~slim.some THEN hint ELSE slim.val

\* Lines 132-167: the skin is fetched and rendered.
FetchAndRender(p) ==
    /\ pc[p] = "L132"
    /\ LET a == args[p]
           got == GetSkin(a, url[p])
       IN IF got.exc = ""
          THEN /\ skin' = [skin EXCEPT ![p] = got.image]
               /\ image' = [image EXCEPT ![p] =
                      Render(a.path, got.image, EffectiveSlim(a.slim, pot_slim[p]),
                             a.overlay, a.margin, a.upscale)]
               /\ log' = [log EXCEPT ![p].fetches = @ + 1, ![p].composites = @ + 1]
               /\ pc' = [pc EXCEPT ![p] = "L170"]
               /\ UNCHANGED result
          ELSE /\ log' = [log EXCEPT ![p].fetches = @ + 1]
               /\ Return(p, IF Handled(a, got.exc) THEN HttpError(ErrorDetail(got.exc))
                            ELSE Raised(got.exc))
               /\ UNCHANGED <<skin, image>>
    /\ UNCHANGED <<dirs, files, args, url, pot_slim, filename, accepted>>

\* image.save(pot_file): PIL picks the format by os.path.splitext, which finds
\* no extension in a name that is only ".png"; open() then needs the directory.
SaveOutcome(f, ds) ==
    IF SplitLast(f.rel, "/") = <<".", "p", "n", "g">> THEN "ValueError"
    ELSE IF ~ParentExists(f, ds) THEN "FileNotFoundError"
    ELSE "ok"

Stored(fs, f, img) == [g \in DOMAIN fs \cup {f} |-> IF g = f THEN img ELSE fs[g]]

\* Lines 169-171 (and 177-180 when the file is written).
SaveFirst(p) ==
    /\ pc[p] = "L170"
    /\ LET out == SaveOutcome(pot_file(p), dirs)
       IN /\ log' = [log EXCEPT ![p].first = out]
          /\ IF out = "ok"
             THEN /\ files' = Stored(files, pot_file(p), image[p])
                  /\ Return(p, StreamingResponse(image[p]))
             ELSE IF out = "FileNotFoundError"
             THEN /\ pc' = [pc EXCEPT ![p] = "L172"]
                  /\ UNCHANGED <<files, result>>
             ELSE /\ Return(p, Raised(out))
                  /\ UNCHANGED files
    /\ UNCHANGED <<dirs, args, url, pot_slim, filename, skin, image, accepted>>

\* Line 172: Path(pot_path).mkdir()
MakeDir(p) ==
    /\ pc[p] = "L172"
    /\ IF args[p].path \in dirs
       THEN /\ log' = [log EXCEPT ![p].mkdir = "FileExistsError"]
            /\ Return(p, Raised("FileExistsError"))
            /\ UNCHANGED dirs
       ELSE /\ log' = [log EXCEPT ![p].mkdir = "ok"]
            /\ dirs' = dirs \cup {args[p].path}
            /\ pc' = [pc EXCEPT ![p] = "L173"]
            /\ UNCHANGED result
    /\ UNCHANGED <<files, args, url, pot_slim, filename, skin, image, accepted>>

\* Mutant of SaveRetry: a failed second write goes back to the mkdir.
SaveRetryAgain(p) ==
    /\ pc[p] = "L173"
    /\ LET out == SaveOutcome(pot_file(p), dirs)
       IN /\ log' = [log EXCEPT ![p].retry = out]
          /\ IF out = "ok"
             THEN /\ files' = Stored(files, pot_file(p), image[p])
                  /\ Return(p, StreamingResponse(image[p]))
             ELSE /\ pc' = [pc EXCEPT ![p] = "L172"]
                  /\ UNCHANGED <<files, result>>
    /\ UNCHANGED <<dirs, args, url, pot_slim, filename, skin, image, accepted>>

\* Mutant of SaveRetry: a failed second write is answered with a 404.
SaveRetryAnswers404(p) ==
    /\ pc[p] = "L173"
    /\ LET out == SaveOutcome(pot_file(p), dirs)
       IN /\ log' = [log EXCEPT ![p].retry = out]
          /\ IF out = "ok"
             THEN /\ files' = Stored(files, pot_file(p), image[p])
                  /\ Return(p, StreamingResponse(image[p]))
             ELSE /\ Return(p, HttpError("Invalid URL"))
                  /\ UNCHANGED files
    /\ UNCHANGED <<dirs, args, url, pot_slim, filename, skin, image, accepted>>

\* Line 173 (and 177-180 when the file is written).
SaveRetry(p) ==
    /\ pc[p] = "L173"
    /\ LET out == SaveOutcome(pot_file(p), dirs)
       IN /\ log' = [log EXCEPT ![p].retry = out]
          /\ IF out = "ok"
             THEN /\ files' = Stored(files, pot_file(p), image[p])
                  /\ Return(p, StreamingResponse(image[p]))
             ELSE /\ Return(p, Raised(out))
                  /\ UNCHANGED files
    /\ UNCHANGED <<dirs, args, url, pot_slim, filename, skin, image, accepted>>

\* The operating system refuses a write or a mkdir (disk full, no permission).
IOFault(p) ==
    /\ pc[p] \in {"L170", "L172", "L173"}
    /\ log' = [log EXCEPT ![p].first = IF pc[p] = "L170" THEN "OSError" ELSE @,
                          ![p].mkdir = IF pc[p] = "L172" THEN "OSError" ELSE @,
                          ![p].retry = IF pc[p] = "L173" THEN "OSError" ELSE @]
    /\ Return(p, Raised("OSError"))
    /\ UNCHANGED <<dirs, files, args, url, pot_slim, filename, skin, image, accepted>>

\* The response is sent; the worker takes the next request.
Finish(p) ==
    /\ pc[p] = "done"
    /\ pc' = [pc EXCEPT ![p] = "idle"]
    /\ args' = [args EXCEPT ![p] = NoArgs]
    /\ url' = [url EXCEPT ![p] = <<>>]
    /\ pot_slim' = [pot_slim EXCEPT ![p] = FALSE]
    /\ filename' = [filename EXCEPT ![p] = <<>>]
    /\ skin' = [skin EXCEPT ![p] = NoImage]
    /\ image' = [image EXCEPT ![p] = NoImage]
    /\ result' = [result EXCEPT ![p] = NoResult]
    /\ log' = [log EXCEPT ![p] = NoLog]
    /\ UNCHANGED <<dirs, files, accepted>>

\* ----------------------------------------------------------- one worker
\* One worker process: the requests run one after the other.
Request(p) == \E a \in Inputs : Accept(p, a)

Next ==
    \E p \in {1} :
        \/ Request(p)
        \/ ResolveSource(p)
        \/ CheckCache(p)
        \/ FetchAndRender(p)
        \/ SaveFirst(p)
        \/ MakeDir(p)
        \/ SaveRetry(p)
        \/ IOFault(p)
        \/ Finish(p)

Spec == Init /\ [][Next]_vars

\* ------------------------------------------------------- several workers
\* Several worker processes share /tmp.  Their requests are first requests
\* for one cache file per route: UrlA and UrlB name the same file.  The
\* operating system refuses nothing here.
ConcurrentInputs ==
    {Args(path, Source(None, Some(u), None),
          [slim |-> Bool(FALSE), overlay |-> TRUE, margin |-> 0, upscale |-> 1]) :
        path \in {"skins/", "portraits/"}, u \in {UrlA, UrlB}}

RequestConcurrent(p) == \E a \in ConcurrentInputs : Accept(p, a)

NextConcurrent ==
    \E p \in Workers :
        \/ RequestConcurrent(p)
        \/ ResolveSource(p)
        \/ CheckCache(p)
        \/ FetchAndRender(p)
        \/ SaveFirst(p)
        \/ MakeDir(p)
        \/ SaveRetry(p)
        \/ Finish(p)

SpecConcurrent == Init /\ [][NextConcurrent]_vars

\* ------------------------------------------------------ naming the file
\* The cache file name as a function of its inputs: one request is named,
\* for every identifier of the shape head, filler, tail and every option
\* value Query admits.
Strings(alphabet, n) == UNION {[1..k -> alphabet] : k \in 0..n}

Filler(k) == [i \in 1..k |-> "x"]

FillLengths == {0} \cup ((MaxFill - 2)..MaxFill)

Identifiers(alphabet) ==
    {h \o Filler(k) \o t : h \in Strings(alphabet, MaxHead), k \in FillLengths,
                           t \in Strings(alphabet, MaxTail)}

KeySources ==
    {Source(None, Some(<<"h", "/">> \o i), None) : i \in Identifiers({"a", ".", "/"})}
    \cup {Source(None, None, Some(i)) : i \in Identifiers({"a", "/"})}
    \cup {Source(Some(Alice), None, None)}

KeyOptions ==
    {[slim |-> Bool(FALSE), overlay |-> o, margin |-> m, upscale |-> u] :
        o \in BOOLEAN, m \in 0..MarginMax, u \in 1..UpscaleMax}

KeyInputs == {Args("skins/", src, opt) : src \in KeySources, opt \in KeyOptions}

InitKey ==
    /\ dirs = {}
    /\ files = NoFiles
    /\ accepted = 1
    /\ \E a \in KeyInputs :
          /\ pc = [p \in Workers |-> IF p = 1 THEN "L100" ELSE "idle"]
          /\ args = [p \in Workers |-> IF p = 1 THEN a ELSE NoArgs]
    /\ url = [p \in Workers |-> <<>>]
    /\ pot_slim = [p \in Workers |-> FALSE]
    /\ filename = [p \in Workers |-> <<>>]
    /\ skin = [p \in Workers |-> NoImage]
    /\ image = [p \in Workers |-> NoImage]
    /\ result = [p \in Workers |-> NoResult]
    /\ log = [p \in Workers |-> NoLog]

NextKey == ResolveSource(1)

SpecKey == InitKey /\ [][NextKey]_vars

\* ------------------------------------------------- the pixels of a render
\* Lines 161-167 on the pixels.  Here an image is its size and its RGBA
\* pixels, at[<<x, y>>] for 0 <= x < w and 0 <= y < h.
Transparent == <<0, 0, 0, 0>>

Coords(w, h) == (0..(w - 1)) \X (0..(h - 1))

\* Image.new('RGBA', (w, h)): every pixel is (0, 0, 0, 0).
new_image(w, h) == [w |-> w, h |-> h, at |-> [c \in Coords(w, h) |-> Transparent]]

\* Mutant of paste: the box is ignored, the source lands in the corner.
paste_corner(dst, src, box) ==
    [dst EXCEPT !.at = [c \in Coords(dst.w, dst.h) |->
        IF c[1] < src.w /\ c[2] < src.h THEN src.at[c] ELSE dst.at[c]]]

\* dst.paste(src, box): the pixels of src replace those of dst from box on;
\* there is no mask, so nothing is blended.
paste(dst, src, box) ==
    [dst EXCEPT !.at = [c \in Coords(dst.w, dst.h) |->
        LET x == c[1] - box[1]
            y == c[2] - box[2]
        IN IF x \in 0..(src.w - 1) /\ y \in 0..(src.h - 1)
           THEN src.at[<<x, y>>] ELSE dst.at[c]]]

\* Mutant of resize_nearest: the source pixel is found by rounding.
resize_rounded(img, w, h) ==
    [w |-> w, h |-> h,
     at |-> [c \in Coords(w, h) |->
                LET x == ((2 * c[1] + 1) * img.w + w) \div (2 * w)
                    y == ((2 * c[2] + 1) * img.h + h) \div (2 * h)
                IN img.at[<<IF x < img.w THEN x ELSE img.w - 1,
                            IF y < img.h THEN y ELSE img.h - 1>>]]]

\* image.resize((w, h), Image.NEAREST): an output pixel is the source pixel
\* under its centre, floor((x + 0.5) * img.w / w).
resize_nearest(img, w, h) ==
    [w |-> w, h |-> h,
     at |-> [c \in Coords(w, h) |->
                img.at[<<((2 * c[1] + 1) * img.w) \div (2 * w),
                         ((2 * c[2] + 1) * img.h) \div (2 * h)>>]]]

\* A decoded skin of w x h whose pixels all differ, with one alpha.
DrawnSkin(w, h, alpha) ==
    [w |-> w, h |-> h, at |-> [c \in Coords(w, h) |-> <<c[1] + 1, c[2] + 1, 7, alpha>>]]

PixelSkins ==
    {DrawnSkin(w, h, alpha) : w \in 1..MaxSide, h \in 1..MaxSide, alpha \in {0, 255}}

PixelOptions ==
    {[slim |-> NoBool, overlay |-> TRUE, margin |-> m, upscale |-> u] :
        m \in 0..MarginMax, u \in 1..UpscaleMax}

\* A /skin/ request with an inline payload stands at line 161: its file is
\* named and not cached, and the payload has decoded to some pixels.
InitPixels ==
    /\ dirs = {}
    /\ files = NoFiles
    /\ accepted = 1
    /\ \E opt \in PixelOptions, drawn \in PixelSkins :
          LET a == Args("skins/", Source(None, None, Some(B64Skin)), opt)
          IN /\ pc = [p \in Workers |-> IF p = 1 THEN "L161" ELSE "idle"]
             /\ args = [p \in Workers |-> IF p = 1 THEN a ELSE NoArgs]
             /\ filename = [p \in Workers |->
                    IF p = 1
                    THEN CacheFileName(Base64Identifier(B64Skin), a.overlay,
                                       a.margin, a.upscale)
                    ELSE <<>>]
             /\ skin = [p \in Workers |-> IF p = 1 THEN drawn ELSE NoImage]
    /\ url = [p \in Workers |-> <<>>]
    /\ pot_slim = [p \in Workers |-> FALSE]
    /\ image = [p \in Workers |-> NoImage]
    /\ result = [p \in Workers |-> NoResult]
    /\ log = [p \in Workers |-> NoLog]

\* Line 161 on /skin/: render_function is lambda x, *_: x.
PixelComposite(p) ==
    /\ pc[p] = "L161"
    /\ args[p].path = "skins/"
    /\ image' = [image EXCEPT ![p] = skin[p]]
    /\ log' = [log EXCEPT ![p].fetches = @ + 1, ![p].composites = @ + 1]
    /\ pc' = [pc EXCEPT ![p] = "L162"]
    /\ UNCHANGED <<dirs, files, args, url, pot_slim, filename, skin, result, accepted>>

\* Lines 162-165
PixelMargin(p) ==
    /\ pc[p] = "L162"
    /\ LET margin == args[p].margin
           new == new_image(image[p].w + margin + margin,
                            image[p].h + margin + margin)
       IN image' = [image EXCEPT ![p] =
              IF margin > 0 THEN paste(new, image[p], <<margin, margin>>)
              ELSE image[p]]
    /\ pc' = [pc EXCEPT ![p] = "L166"]
    /\ UNCHANGED <<dirs, files, args, url, pot_slim, filename, skin, result, log,
                   accepted>>

\* Lines 166-167
PixelUpscale(p) ==
    /\ pc[p] = "L166"
    /\ LET upscale == args[p].upscale
       IN image' = [image EXCEPT ![p] =
              IF upscale > 1
              THEN resize_nearest(image[p], image[p].w * upscale,
                                  image[p].h * upscale)
              ELSE image[p]]
    /\ pc' = [pc EXCEPT ![p] = "L170"]
    /\ UNCHANGED <<dirs, files, args, url, pot_slim, filename, skin, result, log,
                   accepted>>

\* The render of one request pixel by pixel, then its store (lines 161-180).
NextPixels ==
    \E p \in {1} :
        \/ PixelComposite(p)
        \/ PixelMargin(p)
        \/ PixelUpscale(p)
        \/ SaveFirst(p)
        \/ MakeDir(p)
        \/ SaveRetry(p)

SpecPixels == InitPixels /\ [][NextPixels]_vars

\* ================================================================ claims
\* What the claims speak of, in their own words.
Absent(o) == ~o.some \/ o.val = <<>>

MissingSource(a) == Absent(a.player) /\ Absent(a.skin_url) /\ Absent(a.skin_base64)

Served(p) == pc[p] = "done" /\ result[p].kind = "StreamingResponse"

Fatal(p) == pc[p] = "done" /\ result[p].kind = "raised"

OnMissPath(p) == pc[p] \in {"L132", "L170", "L172", "L173"}

\* The source identifier: the last path segment of the skin URL or of the
\* player's skin URL, or the inline payload.
SourceIdentifier(a) ==
    IF ~Absent(a.player) THEN SplitLast(skin_url_from_player(a.player.val).link, "/")
    ELSE IF ~Absent(a.skin_url) THEN SplitLast(a.skin_url.val, "/")
    ELSE a.skin_base64.val

\* The key the spec describes for a tail: tail, 'o', 'm<margin>', 'u<upscale>',
\* '.png', a token left out when its condition is false.
ClaimedKey(tail, overlay, margin, upscale) ==
    LET o == IF overlay THEN <<"o">> ELSE <<>>
        m == IF margin > 0 THEN <<"m", Digits[margin + 1]>> ELSE <<>>
        u == IF upscale > 1 THEN <<"u", Digits[upscale + 1]>> ELSE <<>>
    IN tail \o o \o m \o u \o <<".", "p", "n", "g">>

\* s without what follows its last '.', the '.' included.
WithoutExtension(s) ==
    LET dots == {i \in 1..Len(s) : s[i] = "."}
    IN IF dots = {} THEN s
       ELSE SubSeq(s, 1, (CHOOSE i \in dots : \A j \in dots : j <= i) - 1)

\* The tail the spec describes: the last 15 characters, extension stripped.
Last15Tail(id) == WithoutExtension(SubSeq(id, Max(Len(id) - 14, 1), Len(id)))

\* The tail the code takes: the up-to-15 characters before the last one, cut
\* at their last '.'.
BeforeLastTail(id) == WithoutExtension(SubSeq(id, Max(Len(id) - 15, 1), Len(id) - 1))

\* The tail of the request's file name, as the code slices and strips it.
TailOf(a) ==
    StripExtension(IF ~Absent(a.player) \/ ~Absent(a.skin_url)
                   THEN UrlIdentifier(IF ~Absent(a.player)
                                      THEN skin_url_from_player(a.player.val).link
                                      ELSE a.skin_url.val)
                   ELSE Base64Identifier(a.skin_base64.val))

AllOptions == [overlay : BOOLEAN, margin : 0..MarginMax, upscale : 1..UpscaleMax]

OptionsOf(a) == [overlay |-> a.overlay, margin |-> a.margin, upscale |-> a.upscale]

\* C1: once a cache file exists, a request that names it is served from it:
\* no request is on the render path while its cache file exists; a request
\* served from the cache has called no render function and written nothing,
\* and its response is the stored image; and with one worker no step changes
\* or removes a stored file.
CacheHitServes ==
    \A p \in Workers :
        /\ OnMissPath(p) => pot_file(p) \notin DOMAIN files
        /\ pc[p] = "done" /\ log[p].hit =>
              /\ log[p].composites = 0
              /\ log[p].first = "" /\ log[p].mkdir = "" /\ log[p].retry = ""
              /\ pot_file(p) \in DOMAIN files
              /\ result[p] = StreamingResponse(files[pot_file(p)])

StoredFilesKept ==
    \A f \in DOMAIN files : f \in DOMAIN files' /\ files'[f] = files[f]

CachedArtifactServed == [](CacheHitServes) /\ [][StoredFilesKept]_vars

CachedArtifactServedWitness ==
    \E p \in Workers : Served(p) /\ log[p].hit /\ result[p].image.px = "A"

\* C2: concurrent first requests for one cache file all end with the rendered
\* image and the file stored; none fails.
ConcurrentFirstRequestsSucceed ==
    \A p \in Workers :
        pc[p] = "done" => Served(p) /\ pot_file(p) \in DOMAIN files

\* C3: the skin handed to the render function is 64x64, whatever the source;
\* an image of another size ends the request with the size error.
RenderedSkinIs64 ==
    \A p \in Workers :
        log[p].composites > 0 => skin[p].w = SkinSide /\ skin[p].h = SkinSide

\* C4: for a fixed identifier tail, every other choice of (overlay, margin,
\* upscale) gives another file name.
KeyChangesWithOptions ==
    \A p \in Workers :
        pc[p] = "L129" =>
            LET tail == TailOf(args[p])
                given == OptionsOf(args[p])
            IN \A o \in AllOptions :
                   o # given =>
                       WithModifiers(tail, o.overlay, o.margin, o.upscale) # filename[p]

KeyChangesWithOptionsWitness ==
    \E p \in Workers :
        /\ pc[p] = "L129"
        /\ args[p].overlay /\ args[p].margin = MarginMax /\ args[p].upscale = UpscaleMax

\* C5: the file name is the tail, then 'o' if overlay, then 'm<margin>' if
\* margin > 0, then 'u<upscale>' if upscale > 1, then '.png'.
KeyIsTailAndTokens ==
    \A p \in Workers :
        pc[p] = "L129" =>
            filename[p] = ClaimedKey(TailOf(args[p]), args[p].overlay,
                                     args[p].margin, args[p].upscale)

KeyIsTailAndTokensWitness ==
    \E p \in Workers :
        /\ pc[p] = "L129"
        /\ args[p].overlay /\ args[p].margin = 3 /\ args[p].upscale = 1
        /\ TailOf(args[p]) = <<"a">>
        /\ filename[p] = <<"a", "o", "m", "3", ".", "p", "n", "g">>

\* C6 as stated: the tail is the last 15 characters of the source identifier,
\* extension stripped.
TailIsLast15 ==
    \A p \in Workers :
        pc[p] = "L129" =>
            filename[p] = ClaimedKey(Last15Tail(SourceIdentifier(args[p])),
                                     args[p].overlay, args[p].margin, args[p].upscale)

\* C6 as amended: the tail is the up-to-15 characters before the identifier's
\* last character, cut at their last '.'.
TailIsBeforeLastChar ==
    \A p \in Workers :
        pc[p] = "L129" =>
            filename[p] = ClaimedKey(BeforeLastTail(SourceIdentifier(args[p])),
                                     args[p].overlay, args[p].margin, args[p].upscale)

TailIsBeforeLastCharWitness ==
    \E p \in Workers :
        /\ pc[p] = "L129"
        /\ Len(SourceIdentifier(args[p])) > SliceFrom
        /\ HasChar(TailSlice(SourceIdentifier(args[p])), ".")
        /\ Len(TailOf(args[p])) > 0

\* C7: the file name holds no '/', so the cache file is a direct child of the
\* route's directory.
KeyHasNoSeparator ==
    \A p \in Workers :
        pc[p] = "L129" =>
            /\ ~HasChar(filename[p], "/")
            /\ DirectChild(pot_file(p), args[p].path)

\* C8: a request without a source ends with the 404 "You must specify ..."
\* having fetched, rendered and stored nothing.
MissingSourceAnswer ==
    \A p \in Workers :
        pc[p] \notin {"idle", "L100"} /\ MissingSource(args[p]) =>
            /\ pc[p] = "done"
            /\ result[p] = [kind |-> "HTTPException", status_code |-> 404,
                            detail |-> "You must specify a Player Name, Skin URL or Skin File.",
                            image |-> NoImage]
            /\ log[p] = NoLog

MissingSourceLeavesCache ==
    \A p \in Workers :
        pc[p] = "L100" /\ MissingSource(args[p]) => dirs' = dirs /\ files' = files

MissingSourceRejected == [](MissingSourceAnswer) /\ [][MissingSourceLeavesCache]_vars

MissingSourceRejectedWitness ==
    \E p \in Workers :
        /\ pc[p] = "done"
        /\ args[p].player = Some(<<>>) /\ args[p].skin_base64 = Some(<<>>)
        /\ result[p].status_code = 404

\* C9: an inline payload that decodes to bytes which are no image ends with
\* the 404 "Invalid File, must be Image".
InvalidInlineImageAnswered ==
    \A p \in Workers :
        /\ pc[p] = "done" /\ ~log[p].hit
        /\ Absent(args[p].player) /\ Absent(args[p].skin_url)
        /\ ~Absent(args[p].skin_base64)
        /\ B64Decodes(args[p].skin_base64.val \o <<"=">>)
        /\ ~IsImage(Encoded(args[p].skin_base64.val))
        => result[p] = HttpError("Invalid File, must be Image")

\* C10: the store writes once; a missing directory is made and the write is
\* tried once more; every other failure of the first write, and every failure
\* of the mkdir or of the second write, ends the request.
StoreRetriesOnce ==
    \A p \in Workers :
        LET l == log[p]
        IN /\ l.mkdir # "" => l.first = "FileNotFoundError"
           /\ l.retry # "" => l.mkdir = "ok"
           /\ l.first = "FileNotFoundError" /\ pc[p] = "done" => l.mkdir # ""
           /\ l.mkdir = "ok" /\ pc[p] = "done" => l.retry # ""
           /\ l.first \notin {"", "ok", "FileNotFoundError"} =>
                  Fatal(p) /\ l.mkdir = "" /\ l.retry = ""
           /\ l.mkdir \notin {"", "ok"} => Fatal(p) /\ l.retry = ""
           /\ l.retry \notin {"", "ok"} => Fatal(p)
           /\ l.first = "ok" \/ l.retry = "ok" => Served(p)
           /\ pc[p] \in {"L172", "L173"} => l.first = "FileNotFoundError"
           /\ pc[p] = "L173" => l.mkdir = "ok"
           /\ l.mkdir = "ok" => args[p].path \in dirs

StoreRetriesOnceWitness ==
    \E p \in Workers :
        /\ Served(p)
        /\ log[p].first = "FileNotFoundError" /\ log[p].mkdir = "ok"
        /\ log[p].retry = "ok"
        /\ pot_file(p) \in DOMAIN files

\* C11: a request whose skin was rendered and whose cache write failed (the
\* first write, the mkdir or the second write ended with an exception) still
\* answers its caller with the rendered image.
WriteFailed(p) ==
    \/ log[p].first \notin {"", "ok", "FileNotFoundError"}
    \/ log[p].mkdir \notin {"", "ok"}
    \/ log[p].retry \notin {"", "ok"}

RenderReturnedAfterFailedWrite ==
    \A p \in Workers :
        pc[p] = "done" /\ log[p].composites > 0 /\ WriteFailed(p) =>
            result[p] = StreamingResponse(image[p])

\* C14: on a cache miss the render function gets the caller's slim when the
\* caller gave one; when the caller gave none it gets the profile lookup's
\* slim for a player request, and for a URL or inline request the lookup's
\* slim is not used (the flag is then the default, false).
SlimWanted(a) ==
    IF a.given.some THEN a.given.val
    ELSE IF ~Absent(a.player) THEN skin_url_from_player(a.player.val).slim
    ELSE FALSE

SlimIsGivenOrHint ==
    \A p \in Workers :
        log[p].composites > 0 /\ args[p].path # "skins/" =>
            image[p].slim = SlimWanted(args[p])

\* C15: a player request whose name lookup answers no match (a falsy JSON
\* value), an empty body or a body that is no JSON ends with the 404 "Unknown
\* player", having looked up no cache file, fetched, rendered and stored
\* nothing; the step that ends it leaves the cache as it was.
LookupFails(a) ==
    ~Absent(a.player) /\ NameLookup(a.player.val) \in {"{}", "", "<html>"}

UnknownPlayerAnswer ==
    \A p \in Workers :
        pc[p] \notin {"idle", "L100"} /\ LookupFails(args[p]) =>
            /\ pc[p] = "done"
            /\ result[p] = [kind |-> "HTTPException", status_code |-> 404,
                            detail |-> "Unknown player", image |-> NoImage]
            /\ log[p] = NoLog
            /\ filename[p] = <<>>

UnknownPlayerLeavesCache ==
    \A p \in Workers :
        pc[p] = "L100" /\ LookupFails(args[p]) => dirs' = dirs /\ files' = files

UnknownPlayerRejected == [](UnknownPlayerAnswer) /\ [][UnknownPlayerLeavesCache]_vars

UnknownPlayerRejectedWitness ==
    \E p \in Workers :
        /\ pc[p] = "done"
        /\ args[p].player = Some(Blank)
        /\ result[p].detail = "Unknown player"
        /\ files # NoFiles

\* C16: the image a request is served from the cache is the image a fresh
\* render of that request would give: its own source's skin, put through its
\* own route's render function with its own slim, overlay, margin and upscale.
\* The cache file is one of the request's own route.
FreshSkin(a) ==
    GetSkin(a, IF ~Absent(a.player) THEN skin_url_from_player(a.player.val).link
               ELSE <<>>)

FreshRender(a) ==
    Render(a.path, FreshSkin(a).image, a.slim.val, a.overlay, a.margin, a.upscale)

CacheHitEqualsFreshRender ==
    \A p \in Workers :
        /\ Served(p) /\ log[p].hit
        /\ DirectChild(pot_file(p), args[p].path)
        /\ FreshSkin(args[p]).exc = ""
        => result[p].image = FreshRender(args[p])

\* C17: a request that ends with a client error (the 404 for an unknown
\* player, an invalid URL, a wrong-sized image, an invalid inline image or a
\* missing source) has tried no write and no mkdir; and the cache changes
\* only in a step in which a request's write or mkdir succeeds, so such a
\* request creates no file and no directory and changes no stored file.
ClientError(p) == pc[p] = "done" /\ result[p].kind = "HTTPException"

ClientErrorWroteNothing ==
    \A p \in Workers :
        ClientError(p) =>
            /\ log[p].first = "" /\ log[p].mkdir = "" /\ log[p].retry = ""
            /\ ~log[p].hit
            /\ result[p].status_code = 404
            /\ result[p].detail \in
                   {"Unknown player", "Invalid URL", "Image must be 64x64 pixels large",
                    "Invalid File, must be Image",
                    "You must specify a Player Name, Skin URL or Skin File."}

CacheChangesByWrites ==
    dirs' # dirs \/ files' # files =>
        \E p \in Workers :
            \/ log[p].first = "" /\ log'[p].first = "ok"
            \/ log[p].mkdir = "" /\ log'[p].mkdir = "ok"
            \/ log[p].retry = "" /\ log'[p].retry = "ok"

ClientErrorLeavesCache == [](ClientErrorWroteNothing) /\ [][CacheChangesByWrites]_vars

ClientErrorLeavesCacheWitness ==
    \E p \in Workers :
        /\ ClientError(p)
        /\ result[p].detail = "Image must be 64x64 pixels large"
        /\ dirs # {} /\ files # NoFiles

\* C18: each route keeps to its own directory: every stored file lies in the
\* directory of the route whose render function made it, and a request is
\* served only an image its own route's render function made.
RouteOf(img) ==
    CASE img.fn = "skin" -> "skins/"
      [] img.fn = "portrait" -> "portraits/"
      [] img.fn = "face" -> "profiles/"
      [] OTHER -> ""

RoutesKeepApart ==
    /\ \A f \in DOMAIN files : f.root = RouteOf(files[f])
    /\ \A p \in Workers : Served(p) => RouteOf(result[p].image) = args[p].path

\* C12: after the margin step with margin m > 0 the image is the composited
\* image's size plus 2m each way, every pixel within m of an edge is fully
\* transparent, and pixel (x, y) of the composited image is at (x + m, y + m)
\* unchanged; with margin 0 the image is the composited image.
Composited(p) == RenderFunction(args[p].path, skin[p], args[p].slim.val, args[p].overlay)

MarginPadsTransparent ==
    \A p \in Workers :
        pc[p] = "L166" =>
            LET m == args[p].margin
                before == Composited(p)
                after == image[p]
            IN IF m = 0 THEN after = before
               ELSE /\ after.w = before.w + 2 * m
                    /\ after.h = before.h + 2 * m
                    /\ DOMAIN after.at = (0..(after.w - 1)) \X (0..(after.h - 1))
                    /\ \A c \in DOMAIN after.at :
                           \/ c[1] < m \/ c[1] >= after.w - m
                           \/ c[2] < m \/ c[2] >= after.h - m
                           => after.at[c] = <<0, 0, 0, 0>>
                    /\ \A c \in DOMAIN before.at :
                           after.at[<<c[1] + m, c[2] + m>>] = before.at[c]

MarginPadsTransparentWitness ==
    \E p \in Workers :
        /\ pc[p] = "L166"
        /\ args[p].margin = 4
        /\ skin[p].w = 2 /\ skin[p].h = 1
        /\ image[p].w = 10 /\ image[p].h = 9
        /\ image[p].at[<<5, 4>>] = <<2, 1, 7, 0>>

\* C13: the render is composite, then margin, then upscale: the image that
\* is stored and returned has size ((w + 2m) * u, (h + 2m) * u) and its pixel
\* (x, y) is pixel (x div u, y div u) of the composited image padded by m.
PaddedAt(img, m, x, y) ==
    IF x >= m /\ x < img.w + m /\ y >= m /\ y < img.h + m
    THEN img.at[<<x - m, y - m>>]
    ELSE <<0, 0, 0, 0>>

MarginThenNearestUpscale ==
    \A p \in Workers :
        pc[p] = "done" =>
            LET m == args[p].margin
                u == args[p].upscale
                before == Composited(p)
                out == result[p].image
            IN /\ result[p].kind = "StreamingResponse"
               /\ pot_file(p) \in DOMAIN files
               /\ files[pot_file(p)] = out
               /\ out.w = (before.w + 2 * m) * u
               /\ out.h = (before.h + 2 * m) * u
               /\ DOMAIN out.at = (0..(out.w - 1)) \X (0..(out.h - 1))
               /\ \A c \in DOMAIN out.at :
                      out.at[c] = PaddedAt(before, m, c[1] \div u, c[2] \div u)

MarginThenNearestUpscaleWitness ==
    \E p \in Workers :
        /\ Served(p)
        /\ args[p].margin = 1 /\ args[p].upscale = 2
        /\ skin[p].w = 1 /\ skin[p].h = 2
        /\ result[p].image.w = 6 /\ result[p].image.h = 8
        /\ result[p].image.at[<<3, 5>>] = <<1, 2, 7, 255>>
        /\ files[pot_file(p)] = result[p].image

====
